---- MODULE Spec2Model ----
(***************************************************************************)
(* CV assessment workflow (cv_assessment/workflows/assessment_workflow.py) *)
(* as a state machine: the seven nodes of the compiled StateGraph, the     *)
(* run state they read and update, and CVAssessmentWorkflow.run around     *)
(* the graph's invoke.                                                     *)
(*                                                                         *)
(* The graph is executed the way the compiled StateGraph executes it: in   *)
(* supersteps. The tasks of one superstep are submitted together and run   *)
(* concurrently against the state as it was when the superstep began;      *)
(* their updates are applied together when all of them have returned; a    *)
(* node is a task of the next superstep when at least one node with an     *)
(* edge to it was a task of this one. A task that raises ends the run:     *)
(* tasks not yet picked up are cancelled, tasks in flight finish, no       *)
(* update of the superstep is applied and invoke raises.                   *)
(***************************************************************************)
EXTENDS Integers, Sequences, FiniteSets, TLC

VARIABLES
    state,        \* WorkflowState: slot -> value
    tasks,        \* the nodes of the current superstep
    pc,           \* node -> position of its task
    writes,       \* node -> the update its handler returned (set of <<slot, value>>)
    err,          \* node -> the exception its handler raised
    runpc,        \* position of CVAssessmentWorkflow.run
    outcome,      \* what run gave its caller
    log,          \* logger.error records, in order
    dispatched,   \* node -> number of times the engine submitted it
    executed,     \* node -> number of times its handler was entered
    agentCalls,   \* node -> number of calls of its LLM-backed agent
    writeCount,   \* slot -> number of updates applied to it after the initial state
    failOrder,    \* the nodes whose handler raised, in the order they raised
    trace,        \* <<node, "returned" | "raised">> in the order the handlers of the
                  \* superstep ended (of the superstep before, until one has ended)
    parsed,       \* the references load_documents called parse_document on, in order
    cli,          \* tests/run_example.py main: its position and local variables
    exitStatus,   \* exit status of the command-line tool, -1 while it has not exited
    reportFile,   \* content of reports/example_result.json
    printed,      \* the lines main printed about the outcome
    other,        \* the run of a second caller of the same workflow object, while suspended
    active        \* the caller whose run the variables above hold

\* One invocation of run: its state and its bookkeeping
ctx == <<state, tasks, pc, writes, err, runpc, outcome, log,
         dispatched, executed, agentCalls, writeCount, failOrder, trace, parsed>>

\* What lies outside one invocation of run
outer == <<cli, exitStatus, reportFile, printed, other, active>>

vars == <<state, tasks, pc, writes, err, runpc, outcome, log,
          dispatched, executed, agentCalls, writeCount, failOrder, trace, parsed,
          cli, exitStatus, reportFile, printed, other, active>>

-----------------------------------------------------------------------------
(* Values *)

None == [tag |-> "None"]
Str(s) == [tag |-> "str", s |-> s]

\* Python truthiness of a slot value: None and the empty string are falsy,
\* a non-empty string and a pydantic model instance are truthy.
Truthy(v) == /\ v # None
             /\ (v.tag = "str" => Len(v.s) > 0)

-----------------------------------------------------------------------------
(* Documents: utils/document_parser.py *)

Whitespace == {" ", "\n"}

RECURSIVE LStrip(_)
LStrip(s) == IF s # <<>> /\ Head(s) \in Whitespace THEN LStrip(Tail(s)) ELSE s

RECURSIVE RStrip(_)
RStrip(s) == IF s # <<>> /\ s[Len(s)] \in Whitespace
             THEN RStrip(SubSeq(s, 1, Len(s) - 1)) ELSE s

\* str.strip()
Strip(s) == RStrip(LStrip(s))

\* The files the paths of a run may name. suffix is Path.suffix, content the
\* characters a text extraction yields, corrupt a file its reader rejects.
Files ==
    [ p \in {"cv.txt", "job.md", "CV.PDF", "job.json", "blank.txt",
             "notes.xyz", "gone.txt", "bad.pdf"} |->
        CASE p = "cv.txt"    -> [exists |-> TRUE,  suffix |-> ".txt",  corrupt |-> FALSE,
                                 content |-> <<" ", "c", "v", "\n">>]
          [] p = "job.md"    -> [exists |-> TRUE,  suffix |-> ".md",   corrupt |-> FALSE,
                                 content |-> <<"j", "d">>]
          [] p = "CV.PDF"    -> [exists |-> TRUE,  suffix |-> ".PDF",  corrupt |-> FALSE,
                                 content |-> <<"p", "\n">>]
          [] p = "job.json"  -> [exists |-> TRUE,  suffix |-> ".json", corrupt |-> FALSE,
                                 content |-> <<"{", "}">>]
          [] p = "blank.txt" -> [exists |-> TRUE,  suffix |-> ".txt",  corrupt |-> FALSE,
                                 content |-> <<" ", "\n">>]
          [] p = "notes.xyz" -> [exists |-> TRUE,  suffix |-> ".xyz",  corrupt |-> FALSE,
                                 content |-> <<"n">>]
          [] p = "gone.txt"  -> [exists |-> FALSE, suffix |-> ".txt",  corrupt |-> FALSE,
                                 content |-> <<>>]
          [] p = "bad.pdf"   -> [exists |-> TRUE,  suffix |-> ".pdf",  corrupt |-> TRUE,
                                 content |-> <<>>] ]

\* The references run may be given: a file name, or the empty string.
Paths == DOMAIN Files \cup {""}

\* str.lower() on the suffixes above
Lower(s) == CASE s = ".PDF" -> ".pdf"
              [] s = ".MD"  -> ".md"
              [] OTHER      -> s

Ok(v) == [ok |-> TRUE, value |-> v]
Raise(e) == [ok |-> FALSE, error |-> e]

parse_pdf(f) == IF f.corrupt THEN Raise("PdfReadError") ELSE Ok(Strip(f.content))
parse_docx(f) == IF f.corrupt THEN Raise("PackageNotFoundError") ELSE Ok(Strip(f.content))
parse_txtUnstripped(f) == IF f.corrupt THEN Raise("UnicodeDecodeError") ELSE Ok(f.content)
parse_txt(f) == IF f.corrupt THEN Raise("UnicodeDecodeError") ELSE Ok(Strip(f.content))
\* json.load then json.dumps(data, indent=2): the one JSON document of the model
\* is the empty object, which may be padded with whitespace in the file
parse_json(f) ==
    IF f.corrupt \/ Strip(f.content) # <<"{", "}">> THEN Raise("JSONDecodeError")
    ELSE Ok(<<"{", "}">>)

\* parse_document on the file f its argument names
parse_fileSuffixFirst(f) ==
    LET extension == Lower(f.suffix) IN
    IF extension \notin {".pdf", ".docx", ".txt", ".md", ".json"} THEN Raise("ValueError")
    ELSE IF ~f.exists THEN Raise("FileNotFoundError")
    ELSE CASE extension = ".pdf"            -> parse_pdf(f)
           [] extension = ".docx"           -> parse_docx(f)
           [] extension \in {".txt", ".md"} -> parse_txt(f)
           [] extension = ".json"           -> parse_json(f)
parse_file(f) ==
    IF ~f.exists THEN Raise("FileNotFoundError")
    ELSE LET extension == Lower(f.suffix) IN
         CASE extension = ".pdf"            -> parse_pdf(f)
           [] extension = ".docx"           -> parse_docx(f)
           [] extension \in {".txt", ".md"} -> parse_txt(f)
           [] extension = ".json"           -> parse_json(f)
           [] OTHER                         -> Raise("ValueError")

parse_document(p) == parse_file(Files[p])

-----------------------------------------------------------------------------
(* The graph: CVAssessmentWorkflow._build_workflow *)

Nodes == {"load_documents", "parse_cv", "analyze_job", "match_skills",
          "evaluate_experience", "assess_culture_fit", "create_final_assessment"}

Evaluators == {"match_skills", "evaluate_experience", "assess_culture_fit"}

\* The nodes whose handler calls an LLM-backed agent
AgentNodes == Nodes \ {"load_documents"}

END == "__end__"

\* set_entry_point
EntryPointWithParse == {"load_documents", "parse_cv"}
EntryPoint == {"load_documents"}

\* add_edge, one call per pair
EdgesEvaluatorFromLoad ==
    { <<"load_documents", "parse_cv">>, <<"load_documents", "analyze_job">>,
      <<"load_documents", "match_skills">> }
      \cup ({"parse_cv", "analyze_job"} \X Evaluators)
      \cup (Evaluators \X {"create_final_assessment"})
      \cup { <<"create_final_assessment", END>> }
EdgesFinalFromParse ==
    { <<"load_documents", "parse_cv">>, <<"load_documents", "analyze_job">>,
      <<"parse_cv", "create_final_assessment">> }
      \cup ({"parse_cv", "analyze_job"} \X Evaluators)
      \cup (Evaluators \X {"create_final_assessment"})
      \cup { <<"create_final_assessment", END>> }
EdgesChained ==
    { <<"load_documents", "parse_cv">>, <<"load_documents", "analyze_job">>,
      <<"match_skills", "evaluate_experience">> }
      \cup ({"parse_cv", "analyze_job"} \X Evaluators)
      \cup (Evaluators \X {"create_final_assessment"})
      \cup { <<"create_final_assessment", END>> }
EdgesSequentialParse ==
    { <<"load_documents", "parse_cv">>, <<"parse_cv", "analyze_job">> }
      \cup ({"analyze_job"} \X Evaluators)
      \cup (Evaluators \X {"create_final_assessment"})
      \cup { <<"create_final_assessment", END>> }
EdgesWithCycle ==
    EdgesSequentialParse \cup { <<"create_final_assessment", "parse_cv">> }
Edges ==
    { <<"load_documents", "parse_cv">>, <<"load_documents", "analyze_job">> }
      \cup ({"parse_cv", "analyze_job"} \X Evaluators)
      \cup (Evaluators \X {"create_final_assessment"})
      \cup { <<"create_final_assessment", END>> }

\* The nodes of the superstep after one whose tasks were ran: a node is
\* triggered by any one of its incoming edges, once however many fire.
Triggered(ran) == { n \in Nodes : \E m \in ran : <<m, n>> \in Edges }

-----------------------------------------------------------------------------
(* The run state: WorkflowState and the handlers' use of it *)

InputSlots == {"cv_file_path", "job_description_path"}
OutputSlots == {"cv_text", "job_text", "cv_data", "job_description", "skill_match",
                "experience_evaluation", "culture_fit", "assessment_result"}
Slots == InputSlots \cup OutputSlots

\* run's initial_state
initial_stateKeepsSlots(cv_file_path, job_description_path) ==
    [ s \in Slots |->
        CASE s = "cv_file_path"         -> Str(cv_file_path)
          [] s = "job_description_path" -> Str(job_description_path)
          [] OTHER                      -> state[s] ]
initial_state(cv_file_path, job_description_path) ==
    [ s \in Slots |->
        CASE s = "cv_file_path"         -> Str(cv_file_path)
          [] s = "job_description_path" -> Str(job_description_path)
          [] OTHER                      -> None ]

\* The slots a handler reads with state.get and requires to be truthy
Required(n) ==
    CASE n = "load_documents"          -> {}
      [] n = "parse_cv"                -> {"cv_text"}
      [] n = "analyze_job"             -> {"job_text"}
      [] n \in Evaluators              -> {"cv_data", "job_description"}
      [] n = "create_final_assessment" -> {"cv_data", "job_description", "skill_match",
                                           "experience_evaluation", "culture_fit"}

\* The key of the dict a handler returns
OutSlot(n) ==
    CASE n = "parse_cv"                -> "cv_data"
      [] n = "analyze_job"             -> "job_description"
      [] n = "match_skills"            -> "skill_match"
      [] n = "evaluate_experience"     -> "experience_evaluation"
      [] n = "assess_culture_fit"      -> "culture_fit"
      [] n = "create_final_assessment" -> "assessment_result"

\* if not cv_text / if not cv_data or not job_description / if not all([...])
GuardOkSkipped(n, st) == TRUE
GuardOkPeeks(n, st) ==
    /\ \A s \in Required(n) : Truthy(st[s])
    /\ n = "parse_cv" => Truthy(st["job_text"])
GuardOk(n, st) == \A s \in Required(n) : Truthy(st[s])

-----------------------------------------------------------------------------
(* The agents: what a handler's call of its agent may give back *)

\* Scores in hundredths; the schemas keep each within 0.0 .. 1.0
Scores == {0, 80, 100}

Labels == {"strong_match", "good_match", "weak_match", "no_match", "maybe"}

\* datetime.now()
Timestamps == {1, 2}

\* The exceptions a call of an agent may raise
AgentErrors == {"ValidationError", "ProviderError"}

CVDatas == { [tag |-> "CVData", candidate_name |-> c] : c \in {"Jane Doe", "John Roe"} }
JobDescriptions ==
    { [tag |-> "JobDescription", job_title |-> t] : t \in {"Data Scientist", "Engineer"} }
SkillMatchResults == { [tag |-> "SkillMatchResult", match_score |-> x] : x \in Scores }
ExperienceEvaluations ==
    { [tag |-> "ExperienceEvaluation", experience_score |-> x] : x \in Scores }
CultureFitAssessments ==
    { [tag |-> "CultureFitAssessment", culture_fit_score |-> x] : x \in Scores }

\* AssessmentDetails, as invoke_structured returns it
AssessmentDetails == [recommendation : Labels]

\* The score field of the update evaluator n returned
EvaluatorScore(n) ==
    LET v == (CHOOSE u \in writes[n] : TRUE)[2] IN
    CASE n = "match_skills"        -> v.match_score
      [] n = "evaluate_experience" -> v.experience_score
      [] n = "assess_culture_fit"  -> v.culture_fit_score
overall_scoreByArrival(skill_match, experience_eval, culture_fit) ==
    EvaluatorScore(trace[1][1]) * 40 + EvaluatorScore(trace[2][1]) * 40
        + EvaluatorScore(trace[3][1]) * 20
overall_scoreSwappedWeights(skill_match, experience_eval, culture_fit) ==
    skill_match.match_score * 40 + experience_eval.experience_score * 20
        + culture_fit.culture_fit_score * 40
\* FinalScorerAgent.create_final_assessment: the overall score (in ten-thousandths,
\* the scores being in hundredths) and the report built by model_construct
overall_score(skill_match, experience_eval, culture_fit) ==
    skill_match.match_score * 40 + experience_eval.experience_score * 40
        + culture_fit.culture_fit_score * 20

AssessmentResultSwapped(cv_data, job_description, skill_match, experience_eval, culture_fit, details, now) ==
    [ tag                   |-> "AssessmentResult",
      cv_data               |-> cv_data,
      job_description       |-> job_description,
      skill_match           |-> skill_match,
      experience_evaluation |-> culture_fit,
      culture_fit           |-> culture_fit,
      overall_score         |-> overall_score(skill_match, experience_eval, culture_fit),
      recommendation        |-> details.recommendation,
      timestamp             |-> now ]
AssessmentResult(cv_data, job_description, skill_match, experience_eval, culture_fit, details, now) ==
    [ tag                   |-> "AssessmentResult",
      cv_data               |-> cv_data,
      job_description       |-> job_description,
      skill_match           |-> skill_match,
      experience_evaluation |-> experience_eval,
      culture_fit           |-> culture_fit,
      overall_score         |-> overall_score(skill_match, experience_eval, culture_fit),
      recommendation        |-> details.recommendation,
      timestamp             |-> now ]

\* The values the agent of node n may return when called on the state st
AgentValues(n, st) ==
    CASE n = "parse_cv"            -> CVDatas
      [] n = "analyze_job"         -> JobDescriptions
      [] n = "match_skills"        -> SkillMatchResults
      [] n = "evaluate_experience" -> ExperienceEvaluations
      [] n = "assess_culture_fit"  -> CultureFitAssessments
      [] n = "create_final_assessment" ->
            { AssessmentResult(st["cv_data"], st["job_description"], st["skill_match"],
                               st["experience_evaluation"], st["culture_fit"], d, t) :
                d \in AssessmentDetails, t \in Timestamps }

-----------------------------------------------------------------------------
(* The engine and run *)

\* What becomes of the task of node n whose handler raised, on its attempt-th
\* execution: the handlers re-raise and add_node gives no node a retry policy,
\* so the task has failed.
AfterRaiseRetryOnce(n, attempt) == IF attempt < 2 THEN "pending" ELSE "failed"
AfterRaiseRetryAggregator(n, attempt) ==
    IF n = "create_final_assessment" /\ attempt < 2 THEN "pending" ELSE "failed"
AfterRaise(n, attempt) == "failed"

\* run's "except Exception": the exceptions it catches
CatchesValueErrorOnly(e) == e = "ValueError"
Catches(e) == TRUE

NoError == "None"

Bump(f, S) == [x \in DOMAIN f |-> IF x \in S THEN f[x] + 1 ELSE f[x]]

Init ==
    /\ state = [s \in Slots |-> None]
    /\ tasks = {}
    /\ pc = [n \in Nodes |-> "idle"]
    /\ writes = [n \in Nodes |-> {}]
    /\ err = [n \in Nodes |-> NoError]
    /\ runpc = "start"
    /\ outcome = [tag |-> "pending"]
    /\ log = <<>>
    /\ dispatched = [n \in Nodes |-> 0]
    /\ executed = [n \in Nodes |-> 0]
    /\ agentCalls = [n \in Nodes |-> 0]
    /\ writeCount = [s \in Slots |-> 0]
    /\ failOrder = <<>>
    /\ trace = <<>>
    /\ parsed = <<>>
    /\ cli = [pc |-> "idle"]
    /\ exitStatus = -1
    /\ reportFile = None
    /\ printed = <<>>
    /\ other = None
    /\ active = 1

\* run, up to the first superstep of self.workflow.invoke(initial_state)
run_on(cv_file_path, job_description_path) ==
    /\ runpc = "start"
    /\ state' = initial_state(cv_file_path, job_description_path)
    /\ tasks' = EntryPoint
    /\ pc' = [n \in Nodes |-> IF n \in EntryPoint THEN "pending" ELSE pc[n]]
    /\ dispatched' = Bump(dispatched, EntryPoint)
    /\ runpc' = "invoke"
    /\ UNCHANGED <<writes, err, outcome, log, executed, agentCalls, writeCount, failOrder>>
    /\ UNCHANGED trace

\* run called directly, on any pair of references
run ==
    /\ \E cv_file_path \in Paths, job_description_path \in Paths :
          run_on(cv_file_path, job_description_path)
    /\ UNCHANGED <<parsed, outer>>

\* A handler's "except Exception as e: logger.error(...); raise"
RaisedUnlogged(n, e) ==
    /\ pc' = [pc EXCEPT ![n] = AfterRaise(n, executed'[n])]
    /\ err' = [err EXCEPT ![n] = e]
    /\ log' = log
    /\ failOrder' = Append(failOrder, n)
    /\ trace' = Append(SelectSeq(trace, LAMBDA ev : ev[1] \in tasks), <<n, "raised">>)
Raised(n, e) ==
    /\ pc' = [pc EXCEPT ![n] = AfterRaise(n, executed'[n])]
    /\ err' = [err EXCEPT ![n] = e]
    /\ log' = Append(log, [src |-> n, error |-> e])
    /\ failOrder' = Append(failOrder, n)
    /\ trace' = Append(SelectSeq(trace, LAMBDA ev : ev[1] \in tasks), <<n, "raised">>)

\* A handler's "return {...}"
ReturnedWithReference(n, update) ==
    /\ pc' = [pc EXCEPT ![n] = "done"]
    /\ writes' = [writes EXCEPT ![n] = update \cup { <<"cv_file_path", Str("")>> }]
    /\ trace' = Append(SelectSeq(trace, LAMBDA ev : ev[1] \in tasks), <<n, "returned">>)
Returned(n, update) ==
    /\ pc' = [pc EXCEPT ![n] = "done"]
    /\ writes' = [writes EXCEPT ![n] = update]
    /\ trace' = Append(SelectSeq(trace, LAMBDA ev : ev[1] \in tasks), <<n, "returned">>)

\* The body of _load_documents on the state st: the update it returns or the
\* error it raises, and the references it called parse_document on. The CV is
\* parsed first; when that raises, the job description is not parsed.
load_updatesKeepsCv(st) ==
    LET cv_file_path == st["cv_file_path"].s
        job_description_path == st["job_description_path"].s
        cv == IF cv_file_path # "" THEN parse_document(cv_file_path) ELSE Ok(<<>>)
        job == IF job_description_path # "" THEN parse_document(job_description_path)
               ELSE Ok(<<>>)
        cvParsed == IF cv_file_path # "" THEN <<cv_file_path>> ELSE <<>>
        jobParsed == IF job_description_path # "" THEN <<job_description_path>> ELSE <<>>
        cvUpdate == IF cv_file_path # "" /\ cv.ok THEN { <<"cv_text", Str(cv.value)>> } ELSE {}
        jobUpdate == IF job_description_path # "" /\ job.ok
                     THEN { <<"job_text", Str(job.value)>> } ELSE {}
    IN  IF ~cv.ok THEN [result |-> Raise(cv.error), parsed |-> cvParsed]
        ELSE [result |-> Ok(cvUpdate \cup jobUpdate), parsed |-> cvParsed \o jobParsed]
load_updates(st) ==
    LET cv_file_path == st["cv_file_path"].s
        job_description_path == st["job_description_path"].s
        cv == IF cv_file_path # "" THEN parse_document(cv_file_path) ELSE Ok(<<>>)
        job == IF job_description_path # "" THEN parse_document(job_description_path)
               ELSE Ok(<<>>)
        cvParsed == IF cv_file_path # "" THEN <<cv_file_path>> ELSE <<>>
        jobParsed == IF job_description_path # "" THEN <<job_description_path>> ELSE <<>>
        updates == (IF cv_file_path # "" THEN { <<"cv_text", Str(cv.value)>> } ELSE {})
                   \cup (IF job_description_path # ""
                         THEN { <<"job_text", Str(job.value)>> } ELSE {})
    IN  IF ~cv.ok THEN [result |-> Raise(cv.error), parsed |-> cvParsed]
        ELSE IF ~job.ok THEN [result |-> Raise(job.error), parsed |-> cvParsed \o jobParsed]
        ELSE [result |-> Ok(updates), parsed |-> cvParsed \o jobParsed]

\* _load_documents: the CV is read first, then the job description; an empty
\* reference is skipped, and the dict returned holds a key per document read
\* (none when both references are empty, which the graph accepts as no update).
load_documents ==
    LET n == "load_documents"
        loaded == load_updates(state)
    IN
    /\ runpc = "invoke"
    /\ n \in tasks
    /\ pc[n] = "pending"
    /\ executed' = Bump(executed, {n})
    /\ parsed' = loaded.parsed
    /\ IF ~loaded.result.ok THEN Raised(n, loaded.result.error) /\ UNCHANGED writes
       ELSE Returned(n, loaded.result.value) /\ UNCHANGED <<err, log, failOrder>>
    /\ UNCHANGED <<state, tasks, runpc, outcome, dispatched, agentCalls, writeCount>>
    /\ UNCHANGED outer

\* Entry of the handler of an agent node: the state.get reads and the guard;
\* past the guard the handler calls its agent. A task submitted with the
\* superstep may be picked up by its worker after a sibling has raised, as
\* long as it has not been cancelled.
Enter(n) ==
    /\ runpc = "invoke"
    /\ n \in tasks
    /\ pc[n] = "pending"
    /\ executed' = Bump(executed, {n})
    /\ IF GuardOk(n, state)
       THEN /\ pc' = [pc EXCEPT ![n] = "calling"]
            /\ agentCalls' = Bump(agentCalls, {n})
            /\ UNCHANGED <<err, log, failOrder, trace>>
       ELSE /\ Raised(n, "ValueError")
            /\ UNCHANGED agentCalls
    /\ UNCHANGED <<state, tasks, writes, runpc, outcome, dispatched, writeCount>>
    /\ UNCHANGED <<parsed, outer>>

\* The agent returns and the handler returns its one-key update
AgentReturns(n) ==
    /\ runpc = "invoke"
    /\ n \in tasks
    /\ pc[n] = "calling"
    /\ \E v \in AgentValues(n, state) : Returned(n, { <<OutSlot(n), v>> })
    /\ UNCHANGED <<state, tasks, err, runpc, outcome, log, dispatched, executed,
                   agentCalls, writeCount, failOrder>>
    /\ UNCHANGED <<parsed, outer>>

\* The agent raises and the handler logs and re-raises
AgentRaises(n) ==
    /\ runpc = "invoke"
    /\ n \in tasks
    /\ pc[n] = "calling"
    /\ UNCHANGED executed
    /\ \E e \in AgentErrors : Raised(n, e)
    /\ UNCHANGED <<state, tasks, writes, runpc, outcome, dispatched,
                   agentCalls, writeCount>>
    /\ UNCHANGED <<parsed, outer>>

Handler(n) == Enter(n) \/ AgentReturns(n) \/ AgentRaises(n)

parse_cv == Handler("parse_cv")
analyze_job == Handler("analyze_job")
match_skills == Handler("match_skills")
evaluate_experience == Handler("evaluate_experience")
assess_culture_fit == Handler("assess_culture_fit")
create_final_assessment == Handler("create_final_assessment")

\* A task of the superstep that no worker had picked up when another task
\* raised is cancelled.
Cancel ==
    /\ runpc = "invoke"
    /\ \E m \in tasks : pc[m] = "failed"
    /\ \E n \in tasks :
          /\ pc[n] = "pending"
          /\ pc' = [pc EXCEPT ![n] = "cancelled"]
    /\ UNCHANGED <<state, tasks, writes, err, runpc, outcome, log, dispatched,
                   executed, agentCalls, writeCount, failOrder>>
    /\ UNCHANGED <<trace, parsed, outer>>

\* The superstep of tasks ts is over and the graph goes on: every task returned.
StepDoneOrRaised(ts) == \A n \in ts : pc[n] \in {"done", "failed"}
StepDoneNever(ts) == FALSE
StepDone(ts) == \A n \in ts : pc[n] = "done"

\* The updates of the tasks ts, as the pairs <<slot, value>> to apply
UpdatesWithDefaults(ts) ==
    LET ups == UNION { writes[n] : n \in ts } IN
    ups \cup { <<s, Str(<<"x">>)>> :
                 s \in { t \in {"cv_text", "job_text"} :
                           "load_documents" \in ts /\ ~\E u \in ups : u[1] = t } }
Updates(ts) == UNION { writes[n] : n \in ts }

\* The end of a superstep: every task has returned, their updates are applied
\* together and the triggered nodes are submitted as the next superstep.
NextStep ==
    /\ runpc = "invoke"
    /\ tasks # {}
    /\ StepDone(tasks)
    /\ LET ups == Updates(tasks) IN
       /\ state' = [s \in Slots |->
                      IF \E u \in ups : u[1] = s
                      THEN (CHOOSE u \in ups : u[1] = s)[2] ELSE state[s]]
       /\ writeCount' = [s \in Slots |->
                      writeCount[s] + Cardinality({n \in tasks :
                                                     \E u \in writes[n] : u[1] = s})]
    /\ tasks' = Triggered(tasks)
    /\ pc' = [n \in Nodes |-> IF n \in Triggered(tasks) THEN "pending" ELSE pc[n]]
    /\ dispatched' = Bump(dispatched, Triggered(tasks))
    /\ UNCHANGED <<writes, err, runpc, outcome, log, executed, agentCalls, failOrder>>
    /\ UNCHANGED <<trace, parsed, outer>>

\* invoke returns the final state: "return final_state.get("assessment_result")"
RunReturn ==
    /\ runpc = "invoke"
    /\ tasks = {}
    /\ runpc' = "returned"
    /\ outcome' = [tag |-> "returned", value |-> state["assessment_result"]]
    /\ UNCHANGED <<state, tasks, pc, writes, err, log, dispatched, executed,
                   agentCalls, writeCount, failOrder>>
    /\ UNCHANGED <<trace, parsed, outer>>

\* invoke raises the exception of a task that raised, once no task of the
\* superstep is still pending or in flight; run's except clause logs it and
\* returns None.
RunExcept ==
    /\ runpc = "invoke"
    /\ \A m \in tasks : pc[m] \in {"done", "failed", "cancelled"}
    /\ \E n \in tasks :
          /\ pc[n] = "failed"
          /\ IF Catches(err[n])
             THEN /\ log' = Append(log, [src |-> "run", error |-> err[n]])
                  /\ outcome' = [tag |-> "returned", value |-> None]
             ELSE /\ log' = log
                  /\ outcome' = [tag |-> "raised", error |-> err[n]]
    /\ runpc' = "returned"
    /\ UNCHANGED <<state, tasks, pc, writes, err, dispatched, executed,
                   agentCalls, writeCount, failOrder>>
    /\ UNCHANGED <<trace, parsed, outer>>

Next ==
    \/ run
    \/ load_documents
    \/ parse_cv
    \/ analyze_job
    \/ match_skills
    \/ evaluate_experience
    \/ assess_culture_fit
    \/ create_final_assessment
    \/ Cancel
    \/ NextStep
    \/ RunReturn
    \/ RunExcept

Spec == Init /\ [][Next]_vars

-----------------------------------------------------------------------------
(* Properties *)

Range(q) == { q[i] : i \in DOMAIN q }

\* Some stage of the run has raised
Failed == failOrder # <<>>

ReturnedNone == [tag |-> "returned", value |-> None]

\* The value the handler of node n returned for its output slot
Produced(n) == (CHOOSE u \in writes[n] : u[1] = OutSlot(n))[2]

\* C1: when any stage of a run has failed, assessment_result is never populated,
\* the aggregator has produced no report, and run gives its caller no report.
C1_NoReportAfterFailure ==
    Failed =>
        /\ state["assessment_result"] = None
        /\ writes["create_final_assessment"] = {}
        /\ runpc = "returned" => outcome = ReturnedNone

\* A run that returned after evaluate_experience failed while its two siblings
\* had completed: two of the three evaluations exist and none is aggregated.
C1_Witness ==
    /\ runpc = "returned"
    /\ failOrder = <<"evaluate_experience">>
    /\ pc["match_skills"] = "done"
    /\ pc["assess_culture_fit"] = "done"

C3_ReportEmbedsStageValues ==
    (runpc = "returned" /\ ~Failed) =>
        /\ outcome.tag = "returned"
        /\ outcome.value # None
        /\ outcome.value = Produced("create_final_assessment")
        /\ outcome.value.cv_data = Produced("parse_cv")
        /\ outcome.value.job_description = Produced("analyze_job")
        /\ outcome.value.skill_match = Produced("match_skills")
        /\ outcome.value.experience_evaluation = Produced("evaluate_experience")
        /\ outcome.value.culture_fit = Produced("assess_culture_fit")

\* A returned report whose three evaluations carry three different scores
C3_Witness ==
    /\ runpc = "returned"
    /\ outcome.tag = "returned"
    /\ outcome.value # None
    /\ outcome.value.skill_match.match_score = 80
    /\ outcome.value.experience_evaluation.experience_score = 0
    /\ outcome.value.culture_fit.culture_fit_score = 100

\* C4: an evaluator that has been submitted, entered or has called its agent
\* finds both cv_data and job_description written in the run state.
C4_EvaluatorsAfterBothRecords ==
    \A n \in Evaluators :
        (dispatched[n] > 0 \/ executed[n] > 0 \/ agentCalls[n] > 0) =>
            /\ state["cv_data"] # None
            /\ state["job_description"] # None

\* One evaluator is calling its agent while another is still to be picked up
C4_Witness ==
    /\ pc["match_skills"] = "calling"
    /\ pc["evaluate_experience"] = "pending"

\* C5: parse_cv and analyze_job are submitted only when load_documents has
\* returned; when load_documents raised, no other node is submitted or entered
\* and no agent is called.
C5_ExtractionAfterLoad ==
    /\ \A n \in {"parse_cv", "analyze_job"} :
          (dispatched[n] > 0 \/ executed[n] > 0) =>
              /\ pc["load_documents"] = "done"
              /\ "load_documents" \notin Range(failOrder)
    /\ "load_documents" \in Range(failOrder) =>
          \A n \in AgentNodes :
              dispatched[n] = 0 /\ executed[n] = 0 /\ agentCalls[n] = 0

\* A run that returned after load_documents raised on the second document
C5_Witness ==
    /\ runpc = "returned"
    /\ failOrder = <<"load_documents">>
    /\ state["cv_file_path"] = Str("cv.txt")
    /\ state["job_description_path"] = Str("notes.xyz")

\* C6: create_final_assessment is submitted only when skill_match,
\* experience_evaluation and culture_fit have all been written.
C6_AggregateAfterAllEvaluations ==
    (dispatched["create_final_assessment"] > 0
        \/ executed["create_final_assessment"] > 0) =>
        \A s \in {"skill_match", "experience_evaluation", "culture_fit"} :
            state[s] # None

\* The aggregator is calling its agent
C6_Witness == pc["create_final_assessment"] = "calling"

\* C7: once a stage has failed, the engine submits no further node and applies
\* no update, so no slot changes; when analyze_job has failed, skill_match,
\* experience_evaluation, culture_fit and assessment_result are unset.
C7_NothingSubmittedAfterFailure ==
    /\ [][Failed => (dispatched' = dispatched /\ tasks' = tasks /\ state' = state)]_vars
    /\ []("analyze_job" \in Range(failOrder) =>
            \A s \in {"skill_match", "experience_evaluation", "culture_fit",
                      "assessment_result"} : state[s] = None)

\* A run that returned after analyze_job raised and parse_cv returned
C7_Witness ==
    /\ runpc = "returned"
    /\ failOrder = <<"analyze_job">>
    /\ pc["parse_cv"] = "done"

\* C8: every output slot is written at most once, is None until then, and the
\* two input references are never written after the initial state.
C8_SlotsWrittenOnce ==
    /\ \A s \in OutputSlots : writeCount[s] <= 1 /\ (writeCount[s] = 0 => state[s] = None)
    /\ \A s \in InputSlots : writeCount[s] = 0

\* Every output slot has been written
C8_Witness == \A s \in OutputSlots : writeCount[s] = 1

\* C9: every node is submitted at most once, its handler is entered at most
\* once and its agent is called at most once.
C9_EachNodeAtMostOnce ==
    \A n \in Nodes : dispatched[n] <= 1 /\ executed[n] <= 1 /\ agentCalls[n] <= 1

\* A run that returned after the aggregator's agent raised: all seven nodes ran
C9_Witness ==
    /\ runpc = "returned"
    /\ failOrder = <<"create_final_assessment">>
    /\ agentCalls["create_final_assessment"] = 1
    /\ \A n \in Nodes : executed[n] = 1

\* C10: run never raises to its caller; when a stage raised it returns None,
\* and what it returns is not None only when no stage raised.
C10_RunNeverRaises ==
    /\ outcome.tag # "raised"
    /\ (runpc = "returned" /\ Failed) => outcome = ReturnedNone
    /\ (outcome.tag = "returned" /\ outcome.value # None) => ~Failed

\* A run that returned after an agent call raised a provider error
C10_Witness ==
    /\ runpc = "returned"
    /\ err["match_skills"] = "ProviderError"

\* A report without its timestamp
Content(r) == [k \in DOMAIN r \ {"timestamp"} |-> r[k]]

\* C11: whatever order the three evaluators returned in, the slots the
\* aggregator is submitted on hold each evaluator's own output, and the report
\* it returns is, apart from the timestamp, the one those outputs, the two
\* extracted records and the aggregator's own details determine.
C11_ReportIndependentOfOrder ==
    /\ dispatched["create_final_assessment"] > 0 =>
          \A n \in Evaluators : state[OutSlot(n)] = Produced(n)
    /\ writes["create_final_assessment"] # {} =>
          LET r == Produced("create_final_assessment") IN
          Content(r) =
            [ tag                   |-> "AssessmentResult",
              cv_data               |-> Produced("parse_cv"),
              job_description       |-> Produced("analyze_job"),
              skill_match           |-> Produced("match_skills"),
              experience_evaluation |-> Produced("evaluate_experience"),
              culture_fit           |-> Produced("assess_culture_fit"),
              overall_score         |->
                  40 * Produced("match_skills").match_score
                    + 40 * Produced("evaluate_experience").experience_score
                    + 20 * Produced("assess_culture_fit").culture_fit_score,
              recommendation        |-> r.recommendation ]

\* The aggregator has been entered after the evaluators returned in the reverse
\* of the order they were added in, with three different scores
C11_Witness ==
    /\ pc["create_final_assessment"] = "calling"
    /\ trace = << <<"assess_culture_fit", "returned">>,
                  <<"evaluate_experience", "returned">>,
                  <<"match_skills", "returned">> >>
    /\ state["skill_match"].match_score = 100
    /\ state["experience_evaluation"].experience_score = 80
    /\ state["culture_fit"].culture_fit_score = 0

\* The nodes with an edge to n, and the nodes of the same fan-out as n
Preds == [n \in Nodes |-> { m \in Nodes : <<m, n>> \in Edges }]
Siblings == [n \in Nodes |-> { m \in Nodes : Preds[m] = Preds[n] }]

\* C12: when a stage has failed, no update of a stage of the same fan-out
\* (itself included) is ever applied to the run state, no node they have an
\* edge to is submitted, and run returns None.
C12_SiblingResultDiscarded ==
    \A f \in Range(failOrder) :
        /\ \A n \in Siblings[f] :
              /\ \A u \in writes[n] : state[u[1]] = None
              /\ \A m \in Triggered({n}) : dispatched[m] = 0
        /\ runpc = "returned" => outcome = ReturnedNone

\* A run that returned after evaluate_experience raised and match_skills, in
\* flight at that moment, returned its result afterwards
C12_Witness ==
    /\ runpc = "returned"
    /\ Len(trace) >= 2
    /\ SubSeq(trace, 1, 2) = << <<"evaluate_experience", "raised">>,
                                <<"match_skills", "returned">> >>
    /\ writes["match_skills"] # {}

\* C13: the nodes of each fan-out are submitted together: parse_cv and
\* analyze_job once load_documents' update is applied, the three evaluators
\* once cv_data and job_description are; and a submitted node can be entered
\* whatever the position of its siblings.
C13_FanOutTogether ==
    /\ \A n \in Nodes : \A m \in Siblings[n] : dispatched[m] = dispatched[n]
    /\ (pc["load_documents"] = "done" /\ "load_documents" \notin tasks) =>
          \A n \in {"parse_cv", "analyze_job"} : dispatched[n] = 1
    /\ (state["cv_data"] # None /\ state["job_description"] # None) =>
          \A n \in Evaluators : dispatched[n] = 1
    /\ \A n \in AgentNodes :
          (runpc = "invoke" /\ pc[n] = "pending") => ENABLED Enter(n)

\* parse_cv and analyze_job are both calling their agents
C13_Witness ==
    /\ pc["parse_cv"] = "calling"
    /\ pc["analyze_job"] = "calling"

\* The nodes (END included) that n has an edge to, and those reachable from a
\* set of nodes in one or more steps
Succs(n) == { m \in Nodes \cup {END} : <<n, m>> \in Edges }
RECURSIVE ReachWithin(_, _)
ReachWithin(from, k) ==
    IF k = 0 THEN {}
    ELSE LET next == UNION { Succs(n) : n \in from } IN
         next \cup ReachWithin(next, k - 1)
Reach(n) == ReachWithin({n}, Cardinality(Nodes) + 1)

\* The graph is acyclic, load_documents is its one entry, the one stage with an
\* edge to END is create_final_assessment (which has no other edge), and every
\* stage is reachable from the entry and reaches the terminal stage
WellFormed ==
    /\ \A n \in Nodes : n \notin Reach(n)
    /\ EntryPoint = {"load_documents"}
    /\ { n \in Nodes : Preds[n] = {} } = EntryPoint
    /\ { n \in Nodes : END \in Succs(n) } = {"create_final_assessment"}
    /\ Succs("create_final_assessment") = {END}
    /\ \A n \in Nodes \ {"load_documents"} : n \in Reach("load_documents")
    /\ \A n \in Nodes \ {"create_final_assessment"} :
          "create_final_assessment" \in Reach(n)

\* C16: the graph is acyclic with exactly one entry, load_documents, and
\* exactly one terminal stage, create_final_assessment, every other stage lying
\* on a path from the one to the other; and a run submits a node only after the
\* nodes with an edge to it are done.
C16_GraphWellFormed ==
    /\ WellFormed
    /\ \A n \in Nodes : dispatched[n] > 0 => \A m \in Preds[n] : pc[m] = "done"

\* A run has gone from the entry to the terminal stage and returned a report
C16_Witness ==
    /\ runpc = "returned"
    /\ outcome.value = state["assessment_result"]
    /\ outcome.value # None
    /\ \A n \in Nodes : executed[n] = 1

\* The recommendation bands of FINAL_SCORER_PROMPT, on a score in
\* ten-thousandths; a score between two bands goes to the lower one
Band(score) ==
    IF score >= 8000 THEN "strong_match"
    ELSE IF score >= 6000 THEN "good_match"
    ELSE IF score >= 4000 THEN "weak_match"
    ELSE "no_match"

\* C18: in every report run returns, the recommendation is the label of the
\* band that contains overall_score, and is one of the four labels.
C18_LabelMatchesBand ==
    (runpc = "returned" /\ outcome.value # None) =>
        /\ outcome.value.recommendation = Band(outcome.value.overall_score)
        /\ outcome.value.recommendation
               \in {"strong_match", "good_match", "weak_match", "no_match"}

-----------------------------------------------------------------------------
(* FinalScorerAgent.create_final_assessment on its own, over a grid of scores *)

\* Scores from 0.0 to 1.0 (the bounds ge=0, le=1 of the schemas) in steps of
\* 0.1, in hundredths
ScoreGrid == { 10 * i : i \in 0..10 }

\* The state the aggregator is called on: the two records and three evaluations
ScoreInit ==
    /\ \E s \in ScoreGrid, e \in ScoreGrid, c \in ScoreGrid :
          state = [ initial_state("cv.txt", "job.md") EXCEPT
                      !["cv_data"] = [tag |-> "CVData", candidate_name |-> "Jane Doe"],
                      !["job_description"] =
                          [tag |-> "JobDescription", job_title |-> "Data Scientist"],
                      !["skill_match"] = [tag |-> "SkillMatchResult", match_score |-> s],
                      !["experience_evaluation"] =
                          [tag |-> "ExperienceEvaluation", experience_score |-> e],
                      !["culture_fit"] =
                          [tag |-> "CultureFitAssessment", culture_fit_score |-> c] ]
    /\ tasks = {}
    /\ pc = [n \in Nodes |-> "idle"]
    /\ writes = [n \in Nodes |-> {}]
    /\ err = [n \in Nodes |-> NoError]
    /\ runpc = "start"
    /\ outcome = [tag |-> "pending"]
    /\ log = <<>>
    /\ dispatched = [n \in Nodes |-> 0]
    /\ executed = [n \in Nodes |-> 0]
    /\ agentCalls = [n \in Nodes |-> 0]
    /\ writeCount = [s \in Slots |-> 0]
    /\ failOrder = <<>>
    /\ trace = <<>>
    /\ parsed = <<>>
    /\ cli = [pc |-> "idle"]
    /\ exitStatus = -1
    /\ reportFile = None
    /\ printed = <<>>
    /\ other = None
    /\ active = 1

\* One call of the aggregator's agent, its report kept in assessment_result
FinalScorerAgent_create_final_assessment ==
    /\ state["assessment_result"] = None
    /\ \E r \in AgentValues("create_final_assessment", state) :
          state' = [state EXCEPT !["assessment_result"] = r]
    /\ UNCHANGED <<tasks, pc, writes, err, runpc, outcome, log, dispatched, executed,
                   agentCalls, writeCount, failOrder, trace, parsed, outer>>

ScoreNext == FinalScorerAgent_create_final_assessment

SpecScore == ScoreInit /\ [][ScoreNext]_vars

-----------------------------------------------------------------------------
(* parse_document on its own, over the files a path may name *)

Suffixes == {".pdf", ".PDF", ".docx", ".txt", ".md", ".MD", ".json", ".xyz", ""}
Contents == { <<>>, <<" ", "c", "v", "\n">>, <<"{", "}">>, <<" ", "{", "}", "\n">> }

\* A path names a file that exists, with some content its reader may reject, or
\* names nothing
FileRecords ==
    { f \in [exists : BOOLEAN, suffix : Suffixes, corrupt : BOOLEAN, content : Contents] :
        ~f.exists => (~f.corrupt /\ f.content = <<>>) }

ParseInit ==
    /\ \E f \in FileRecords : other = [tag |-> "file", file |-> f]
    /\ outcome = [tag |-> "pending"]
    /\ state = [s \in Slots |-> None]
    /\ tasks = {}
    /\ pc = [n \in Nodes |-> "idle"]
    /\ writes = [n \in Nodes |-> {}]
    /\ err = [n \in Nodes |-> NoError]
    /\ runpc = "start"
    /\ log = <<>>
    /\ dispatched = [n \in Nodes |-> 0]
    /\ executed = [n \in Nodes |-> 0]
    /\ agentCalls = [n \in Nodes |-> 0]
    /\ writeCount = [s \in Slots |-> 0]
    /\ failOrder = <<>>
    /\ trace = <<>>
    /\ parsed = <<>>
    /\ cli = [pc |-> "idle"]
    /\ exitStatus = -1
    /\ reportFile = None
    /\ printed = <<>>
    /\ active = 1

\* One call of parse_document, what it returned or raised kept in outcome
parse_document_call ==
    /\ outcome.tag = "pending"
    /\ outcome' = [tag |-> "parsed", result |-> parse_file(other.file)]
    /\ UNCHANGED <<state, tasks, pc, writes, err, runpc, log, dispatched, executed,
                   agentCalls, writeCount, failOrder, trace, parsed>>
    /\ UNCHANGED <<cli, exitStatus, reportFile, printed, other, active>>

ParseNext == parse_document_call

SpecParse == ParseInit /\ [][ParseNext]_vars

Recognised == {".pdf", ".docx", ".txt", ".md", ".json"}

\* The exceptions that are instances of ValueError
ValueErrors == {"ValueError", "JSONDecodeError", "UnicodeDecodeError"}

\* The reader of the file's format accepts its content
Accepted(f) ==
    /\ ~f.corrupt
    /\ Lower(f.suffix) = ".json" => Strip(f.content) = <<"{", "}">>

-----------------------------------------------------------------------------
(* The command-line tool: tests/run_example.py *)

\* The files under examples/ that main falls back on
DefaultCv == "cv.txt"
DefaultJob == "job.md"

\* main up to its checks of the two paths: each prints an error and returns
main_parse_args ==
    /\ cli.pc = "idle"
    /\ \E cv \in Paths, job \in Paths :
          LET cv_path == IF cv # "" THEN cv ELSE DefaultCv
              job_path == IF job # "" THEN job ELSE DefaultJob
          IN  IF ~Files[cv_path].exists
              THEN /\ printed' = Append(printed, "[ERROR] CV file not found")
                   /\ cli' = [pc |-> "exited"]
                   /\ exitStatus' = 0
              ELSE IF ~Files[job_path].exists
              THEN /\ printed' = Append(printed, "[ERROR] Job description file not found")
                   /\ cli' = [pc |-> "exited"]
                   /\ exitStatus' = 0
              ELSE /\ printed' = Append(printed, "Starting assessment...")
                   /\ cli' = [pc |-> "checked", cv_path |-> cv_path, job_path |-> job_path]
                   /\ exitStatus' = exitStatus
    /\ UNCHANGED <<reportFile, other, active>>
    /\ UNCHANGED ctx

\* workflow = CVAssessmentWorkflow() raises (create_llm rejects the configured
\* provider): nothing catches it and the interpreter exits with a traceback
main_construct_raises ==
    /\ cli.pc = "checked"
    /\ cli' = [pc |-> "crashed"]
    /\ exitStatus' = 1
    /\ UNCHANGED <<reportFile, printed, other, active>>
    /\ UNCHANGED ctx

\* result = workflow.run(str(cv_path), str(job_path))
main_run ==
    /\ cli.pc = "checked"
    /\ run_on(cli.cv_path, cli.job_path)
    /\ cli' = [cli EXCEPT !.pc = "running"]
    /\ UNCHANGED <<parsed, exitStatus, reportFile, printed, other, active>>

main_resultAlwaysWrites ==
    /\ cli.pc = "running"
    /\ runpc = "returned"
    /\ reportFile' = [tag |-> "json", data |-> outcome.value]
    /\ printed' = Append(printed, "Results saved to")
    /\ cli' = [pc |-> "exited"]
    /\ exitStatus' = 0
    /\ UNCHANGED <<other, active>>
    /\ UNCHANGED ctx
\* if result: ... write reports/example_result.json; else: print the failure.
\* main then returns and the interpreter exits normally.
main_result ==
    /\ cli.pc = "running"
    /\ runpc = "returned"
    /\ IF Truthy(outcome.value)
       THEN /\ reportFile' = [tag |-> "json", data |-> outcome.value]
            /\ printed' = Append(printed, "Results saved to")
       ELSE /\ reportFile' = reportFile
            /\ printed' = Append(printed, "[ERROR] Assessment failed!")
    /\ cli' = [pc |-> "exited"]
    /\ exitStatus' = 0
    /\ UNCHANGED <<other, active>>
    /\ UNCHANGED ctx

CliNext ==
    \/ main_parse_args
    \/ main_construct_raises
    \/ main_run
    \/ load_documents
    \/ parse_cv
    \/ analyze_job
    \/ match_skills
    \/ evaluate_experience
    \/ assess_culture_fit
    \/ create_final_assessment
    \/ Cancel
    \/ NextStep
    \/ RunReturn
    \/ RunExcept
    \/ main_result

SpecCli == Init /\ [][CliNext]_vars

\* C20: when the command-line tool has exited, its exit status is success (0)
\* exactly when run returned a report; it is a failure status when the run
\* failed or an input file was missing.
C20_ExitStatusReflectsOutcome ==
    cli.pc \in {"exited", "crashed"} =>
        (exitStatus = 0 <=> (outcome.tag = "returned" /\ outcome.value # None))

-----------------------------------------------------------------------------
(* Several runs, one after the other, on the same CVAssessmentWorkflow object,
   its agents replaced by deterministic stubs *)

\* The number of runs made on the object
MaxRuns == 2

\* The references the runs are given
RepeatPaths == {"cv.txt", "bad.pdf"}

\* A value without the timestamp of a report
SansTimestamp(v) == IF v.tag = "AssessmentResult" THEN Content(v) ELSE v

\* What the stub of node n may return, the timestamp of a report being taken
\* from the clock
StubValues(n) ==
    CASE n = "parse_cv"            -> CVDatas
      [] n = "analyze_job"         -> { [tag |-> "JobDescription", job_title |-> "Engineer"] }
      [] n = "match_skills"        -> { [tag |-> "SkillMatchResult", match_score |-> x] :
                                          x \in {0, 100} }
      [] n = "evaluate_experience" ->
            { [tag |-> "ExperienceEvaluation", experience_score |-> 80] }
      [] n = "assess_culture_fit"  ->
            { [tag |-> "CultureFitAssessment", culture_fit_score |-> 80] }
      [] n = "create_final_assessment" ->
            { r \in AgentValues(n, state) : r.recommendation \in {"strong_match", "maybe"} }

\* The agents are stubs: the stub of a node does in every run what it did in the
\* run before, if it was called in it: it returns the same value or raises the
\* same error
Stubbed ==
    \A n \in AgentNodes :
        /\ err[n] \in {NoError, "ValueError", "ProviderError"}
        /\ \A u \in writes[n] : u[2] \in StubValues(n)
        /\ (other # None /\ agentCalls[n] > 0 /\ other.agentCalls[n] > 0
              /\ pc[n] \in {"done", "failed"}) =>
              /\ pc[n] = other.pc[n]
              /\ err[n] = other.err[n]
              /\ { SansTimestamp(u[2]) : u \in writes[n] }
                   = { SansTimestamp(u[2]) : u \in other.writes[n] }

\* The first call of run on the object
run_first ==
    /\ \E cv_file_path \in RepeatPaths, job_description_path \in RepeatPaths :
          run_on(cv_file_path, job_description_path)
    /\ UNCHANGED <<parsed, outer>>

\* A step of the handler of an agent node, the agent being a stub
stubbed_agent ==
    \E n \in AgentNodes : Handler(n) /\ Stubbed'

\* A further call of run on the object, after the one before has returned: run
\* builds a new initial_state and invoke starts from it; what the run before
\* left behind is kept in other for comparison, and the log goes on
run_again ==
    /\ runpc = "returned"
    /\ active < MaxRuns
    /\ active' = active + 1
    /\ other' = [tag |-> "run", state |-> state, pc |-> pc, writes |-> writes,
                 err |-> err, agentCalls |-> agentCalls, outcome |-> outcome]
    /\ \E cv_file_path \in RepeatPaths, job_description_path \in RepeatPaths :
          state' = initial_state(cv_file_path, job_description_path)
    /\ tasks' = EntryPoint
    /\ pc' = [n \in Nodes |-> IF n \in EntryPoint THEN "pending" ELSE "idle"]
    /\ dispatched' = Bump([n \in Nodes |-> 0], EntryPoint)
    /\ runpc' = "invoke"
    /\ writes' = [n \in Nodes |-> {}]
    /\ err' = [n \in Nodes |-> NoError]
    /\ outcome' = [tag |-> "pending"]
    /\ executed' = [n \in Nodes |-> 0]
    /\ agentCalls' = [n \in Nodes |-> 0]
    /\ writeCount' = [s \in Slots |-> 0]
    /\ failOrder' = <<>>
    /\ trace' = <<>>
    /\ parsed' = <<>>
    /\ UNCHANGED <<log, cli, exitStatus, reportFile, printed>>

RepeatNext ==
    \/ run_first
    \/ load_documents
    \/ stubbed_agent
    \/ Cancel
    \/ NextStep
    \/ RunReturn
    \/ RunExcept
    \/ run_again

SpecRepeat == Init /\ [][RepeatNext]_vars

\* C14: when a run on the same references as the run before it on the same
\* object has returned, every slot of its state, and what it returned, equal
\* those of the run before apart from the report's timestamp; and whatever the
\* references, every output slot of a run holds nothing, or the value a handler
\* of this very run returned for it.
C14_RepeatedRunSameState ==
    (other # None /\ runpc = "returned") =>
        /\ (\A s \in InputSlots : state[s] = other.state[s]) =>
              /\ \A s \in Slots : SansTimestamp(state[s]) = SansTimestamp(other.state[s])
              /\ outcome.tag = other.outcome.tag
              /\ SansTimestamp(outcome.value) = SansTimestamp(other.outcome.value)
        /\ \A s \in OutputSlots :
              \/ state[s] = None
              \/ \E n \in Nodes : pc[n] = "done" /\ <<s, state[s]>> \in writes[n]

\* A second run on the same references has returned a report that differs from
\* the first run's in its timestamp only
C14_Witness ==
    /\ other # None
    /\ runpc = "returned"
    /\ \A s \in InputSlots : state[s] = other.state[s]
    /\ outcome.value # None
    /\ outcome.value.timestamp # other.outcome.value.timestamp

-----------------------------------------------------------------------------
(* Two callers in run at the same time on the same CVAssessmentWorkflow object *)

\* The references each caller passes to run
ConcArgs == << [cv |-> "cv.txt", job |-> "job.md"], [cv |-> "CV.PDF", job |-> "job.json"] >>

\* What the agent of node n answers in the run of caller a: each caller's
\* documents are about another candidate and another job
ConcValues(a, n) ==
    CASE n = "parse_cv"            ->
            { [tag |-> "CVData",
               candidate_name |-> IF a = 1 THEN "Jane Doe" ELSE "John Roe"] }
      [] n = "analyze_job"         ->
            { [tag |-> "JobDescription",
               job_title |-> IF a = 1 THEN "Data Scientist" ELSE "Engineer"] }
      [] n = "match_skills"        ->
            { [tag |-> "SkillMatchResult", match_score |-> IF a = 1 THEN 100 ELSE 0] }
      [] n = "evaluate_experience" ->
            { [tag |-> "ExperienceEvaluation", experience_score |-> IF a = 1 THEN 100 ELSE 0] }
      [] n = "assess_culture_fit"  ->
            { [tag |-> "CultureFitAssessment", culture_fit_score |-> IF a = 1 THEN 100 ELSE 0] }
      [] n = "create_final_assessment" ->
            { r \in AgentValues(n, state) :
                r.recommendation = IF a = 1 THEN "strong_match" ELSE "no_match" }

\* The agents answer the active caller's prompts; the only agent that may fail
\* is the CV parser's
ConcAnswers ==
    \A n \in AgentNodes :
        /\ \A u \in writes[n] : u[2] \in ConcValues(active, n)
        /\ err[n] # NoError => (n = "parse_cv" /\ err[n] = "ProviderError")

\* What belongs to one call of run: its initial_state and the state of the
\* graph's invoke on it. The log is the process's.
Context ==
    [ tag |-> "ctx", state |-> state, tasks |-> tasks, pc |-> pc, writes |-> writes,
      err |-> err, runpc |-> runpc, outcome |-> outcome, dispatched |-> dispatched,
      executed |-> executed, agentCalls |-> agentCalls, writeCount |-> writeCount,
      failOrder |-> failOrder, trace |-> trace, parsed |-> parsed ]

\* One object, two callers about to call run; the variables hold the context
\* of the caller that is running, other that of the caller that is not
ConcInit ==
    /\ state = [s \in Slots |-> None]
    /\ tasks = {}
    /\ pc = [n \in Nodes |-> "idle"]
    /\ writes = [n \in Nodes |-> {}]
    /\ err = [n \in Nodes |-> NoError]
    /\ runpc = "start"
    /\ outcome = [tag |-> "pending"]
    /\ log = <<>>
    /\ dispatched = [n \in Nodes |-> 0]
    /\ executed = [n \in Nodes |-> 0]
    /\ agentCalls = [n \in Nodes |-> 0]
    /\ writeCount = [s \in Slots |-> 0]
    /\ failOrder = <<>>
    /\ trace = <<>>
    /\ parsed = <<>>
    /\ cli = [pc |-> "idle"]
    /\ exitStatus = -1
    /\ reportFile = None
    /\ printed = <<>>
    /\ other = Context
    /\ active = 1

\* The active caller calls run on its references
conc_run ==
    /\ run_on(ConcArgs[active].cv, ConcArgs[active].job)
    /\ UNCHANGED <<parsed, outer>>

\* A step of the handler of an agent node in the active caller's run
conc_agent ==
    \E n \in AgentNodes : Handler(n) /\ ConcAnswers'

\* The scheduler takes the processor from the active caller and gives it to
\* the other one
SwitchSharedState ==
    /\ other' = Context
    /\ active' = 3 - active
    /\ state' = state
    /\ tasks' = other.tasks
    /\ pc' = other.pc
    /\ writes' = other.writes
    /\ err' = other.err
    /\ runpc' = other.runpc
    /\ outcome' = other.outcome
    /\ dispatched' = other.dispatched
    /\ executed' = other.executed
    /\ agentCalls' = other.agentCalls
    /\ writeCount' = other.writeCount
    /\ failOrder' = other.failOrder
    /\ trace' = other.trace
    /\ parsed' = other.parsed
    /\ UNCHANGED <<log, cli, exitStatus, reportFile, printed>>
Switch ==
    /\ other' = Context
    /\ active' = 3 - active
    /\ state' = other.state
    /\ tasks' = other.tasks
    /\ pc' = other.pc
    /\ writes' = other.writes
    /\ err' = other.err
    /\ runpc' = other.runpc
    /\ outcome' = other.outcome
    /\ dispatched' = other.dispatched
    /\ executed' = other.executed
    /\ agentCalls' = other.agentCalls
    /\ writeCount' = other.writeCount
    /\ failOrder' = other.failOrder
    /\ trace' = other.trace
    /\ parsed' = other.parsed
    /\ UNCHANGED <<log, cli, exitStatus, reportFile, printed>>

ConcNext ==
    \/ conc_run
    \/ load_documents
    \/ conc_agent
    \/ Cancel
    \/ NextStep
    \/ RunReturn
    \/ RunExcept
    \/ Switch

SpecConcurrent == ConcInit /\ [][ConcNext]_vars

\* The values slot s may hold in a run of caller a that no other run touches
OwnValues(a, s) ==
    CASE s = "cv_file_path"          -> { Str(ConcArgs[a].cv) }
      [] s = "job_description_path"  -> { Str(ConcArgs[a].job) }
      [] s = "cv_text"               -> { Str(parse_document(ConcArgs[a].cv).value) }
      [] s = "job_text"              -> { Str(parse_document(ConcArgs[a].job).value) }
      [] s = "cv_data"               -> ConcValues(a, "parse_cv")
      [] s = "job_description"       -> ConcValues(a, "analyze_job")
      [] s = "skill_match"           -> ConcValues(a, "match_skills")
      [] s = "experience_evaluation" -> ConcValues(a, "evaluate_experience")
      [] s = "culture_fit"           -> ConcValues(a, "assess_culture_fit")
      [] s = "assessment_result"     ->
            { AssessmentResult(cv_data, job_description, skill_match, experience_eval,
                               culture_fit, details, now) :
                cv_data \in ConcValues(a, "parse_cv"),
                job_description \in ConcValues(a, "analyze_job"),
                skill_match \in ConcValues(a, "match_skills"),
                experience_eval \in ConcValues(a, "evaluate_experience"),
                culture_fit \in ConcValues(a, "assess_culture_fit"),
                details \in { d \in AssessmentDetails :
                    d.recommendation = IF a = 1 THEN "strong_match" ELSE "no_match" },
                now \in Timestamps }

\* The run with context c is caller a's alone and follows the graph
OwnRun(a, c) ==
    /\ \A s \in Slots : c.state[s] = None \/ c.state[s] \in OwnValues(a, s)
    /\ \A s \in OutputSlots :
          c.state[s] # None => \E n \in Nodes : <<s, c.state[s]>> \in c.writes[n]
    /\ c.outcome.tag = "returned" =>
          /\ c.outcome.value = c.state["assessment_result"]
          /\ c.outcome.value # None <=> c.failOrder = <<>>
    /\ \A n \in Nodes : c.dispatched[n] > 0 => \A m \in Preds[n] : c.pc[m] = "done"
    /\ \A n \in Nodes : c.dispatched[n] <= 1

\* C15: with two callers in run at the same time on one object, each run's
\* state holds only that run's own references and the values its own handlers
\* returned, its outcome is its own report (or None exactly when one of its own
\* stages failed), and each run follows the one graph built at construction,
\* every node submitted at most once and only after its predecessors.
C15_ConcurrentRunsIndependent ==
    /\ OwnRun(active, Context)
    /\ OwnRun(3 - active, other)
    /\ WellFormed

\* Both runs are under way at once: the second caller's is calling an
\* evaluator's agent while the first caller's is calling the aggregator's
C15_Witness ==
    /\ active = 2
    /\ pc["match_skills"] = "calling"
    /\ other.pc["create_final_assessment"] = "calling"
    /\ state["cv_data"].candidate_name = "John Roe"
    /\ other.state["cv_data"].candidate_name = "Jane Doe"

\* C21: the command-line tool writes the report file only when run returned a
\* report, and the file then holds that report; when the run failed nothing is
\* written and the failure message is printed; when an input file is missing
\* the workflow is never run, nothing is written and only the error message is
\* printed.
C21_ReportFileOnlyWithReport ==
    /\ reportFile # None =>
          /\ cli.pc = "exited"
          /\ runpc = "returned"
          /\ outcome = [tag |-> "returned", value |-> reportFile.data]
          /\ reportFile.data # None
          /\ reportFile.data = state["assessment_result"]
    /\ (cli.pc = "exited" /\ runpc = "returned" /\ outcome = ReturnedNone) =>
          /\ reportFile = None
          /\ printed[Len(printed)] = "[ERROR] Assessment failed!"
    /\ (cli.pc = "exited" /\ runpc = "start") =>
          /\ reportFile = None
          /\ \A n \in Nodes : dispatched[n] = 0
          /\ printed \in { <<"[ERROR] CV file not found">>,
                           <<"[ERROR] Job description file not found">> }

\* The tool has exited after a run in which an evaluator failed: no file, and
\* the failure message printed last
C21_Witness ==
    /\ cli.pc = "exited"
    /\ outcome = ReturnedNone
    /\ pc["evaluate_experience"] = "failed"
    /\ reportFile = None
    /\ printed = <<"Starting assessment...", "[ERROR] Assessment failed!">>

-----------------------------------------------------------------------------
(* What a handler is handed and what it reads *)

\* The argument of the handler of node n when the run state is st: the graph is
\* a StateGraph(WorkflowState) and every handler takes the whole WorkflowState
View(n, st) == st

\* The slots the handler of node n reads, with state[...] or state.get(...)
Reads(n) ==
    CASE n = "load_documents"          -> {"cv_file_path", "job_description_path"}
      [] n = "parse_cv"                -> {"cv_text"}
      [] n = "analyze_job"             -> {"job_text"}
      [] n \in Evaluators              -> {"cv_data", "job_description"}
      [] n = "create_final_assessment" -> {"cv_data", "job_description", "skill_match",
                                           "experience_evaluation", "culture_fit"}

\* What the handler of node n does when handed st: for load_documents its
\* update or error, for the others whether the guard passes and what the agent
\* may then return
HandlerOutcome(n, st) ==
    IF n = "load_documents" THEN [load |-> load_updates(st)]
    ELSE [guard |-> GuardOk(n, st),
          values |-> IF GuardOk(n, st) THEN AgentValues(n, st) ELSE {}]

\* Values to put in a slot a handler does not read
ProbeValues == { None, Str(<<"x">>) }

\* C22 as stated: the view a stage is given exposes exactly the slots it
\* declared as inputs.
C22_ViewExposesOnlyDeclared ==
    \A n \in tasks : DOMAIN View(n, state) = Reads(n)

\* C22, amended: every stage is handed the whole run state, all ten slots, and
\* nothing keeps it from reading any of them; but what it does depends only on
\* the slots it reads (load_documents the two references, parse_cv cv_text,
\* analyze_job job_text, each evaluator cv_data and job_description, the
\* aggregator those two and the three evaluation results): changing any other
\* slot of what it is handed changes nothing of its outcome.
C22_StagesReadOnlyTheirInputs ==
    \A n \in { m \in tasks : pc[m] \in {"pending", "calling"} } :
        /\ DOMAIN View(n, state) = Slots
        /\ \A s \in Slots \ Reads(n) : \A v \in ProbeValues :
              HandlerOutcome(n, [View(n, state) EXCEPT ![s] = v])
                = HandlerOutcome(n, View(n, state))

\* parse_cv is about to be entered on a state whose job_text and two
\* references are populated as well
C22_Witness ==
    /\ "parse_cv" \in tasks
    /\ pc["parse_cv"] = "pending"
    /\ Truthy(state["cv_text"])
    /\ Truthy(state["job_text"])
    /\ Truthy(View("parse_cv", state)["job_description_path"])

\* The keys of the dict the handler of node n returns
Outputs(n) == IF n = "load_documents" THEN {"cv_text", "job_text"} ELSE {OutSlot(n)}

\* C23: the update a stage returns holds only its own output slots, and a stage
\* that failed returned none; no step of a handler changes the run state: once
\* run has built it, a slot changes only when the engine applies the updates of
\* a superstep all of whose stages returned, and then only an output slot of
\* one of those stages, to the value that stage returned; the two references
\* never change.
C23_StagesWriteOnlyOwnSlots ==
    /\ [](\A n \in Nodes :
            /\ \A u \in writes[n] : u[1] \in Outputs(n)
            /\ pc[n] = "failed" => writes[n] = {})
    /\ [][ state' # state =>
             \/ runpc = "start"
             \/ /\ StepDone(tasks)
                /\ \A s \in Slots :
                      state'[s] # state[s] =>
                          /\ s \in OutputSlots
                          /\ \E n \in tasks : /\ s \in Outputs(n)
                                              /\ <<s, state'[s]>> \in writes[n] ]_vars

\* match_skills failed while evaluate_experience returned its update: the run
\* has returned with both slots unset and the earlier slots as they were
C23_Witness ==
    /\ runpc = "returned"
    /\ pc["match_skills"] = "failed"
    /\ pc["evaluate_experience"] = "done"
    /\ writes["evaluate_experience"] # {}
    /\ state["experience_evaluation"] = None
    /\ state["skill_match"] = None
    /\ state["cv_data"] # None
    /\ state["cv_file_path"] = Str("cv.txt")

\* The slot s holds a value
Populated(s) == state[s] # None

\* C24: in every reachable state the populated slots are closed under the
\* dependency order: cv_data needs cv_text, job_description needs job_text, an
\* evaluation result needs cv_data and job_description, and assessment_result
\* needs the seven other output slots.
C24_PopulatedSlotsClosed ==
    /\ Populated("cv_data") => Populated("cv_text") /\ Truthy(state["cv_text"])
    /\ Populated("job_description") => Populated("job_text") /\ Truthy(state["job_text"])
    /\ \A s \in {"skill_match", "experience_evaluation", "culture_fit"} :
          Populated(s) => Populated("cv_data") /\ Populated("job_description")
    /\ Populated("assessment_result") =>
          \A s \in OutputSlots \ {"assessment_result"} : Populated(s)

\* A run stopped in its evaluators: the texts and the two records are
\* populated, no evaluation result nor the report is
C24_Witness ==
    /\ runpc = "returned"
    /\ \A s \in {"cv_text", "job_text", "cv_data", "job_description"} : Populated(s)
    /\ \A s \in {"skill_match", "experience_evaluation", "culture_fit",
                 "assessment_result"} : ~Populated(s)
    /\ pc["assess_culture_fit"] = "failed"

\* The non-empty references of the run, the CV's first
GivenReferences ==
    LET cv_file_path == state["cv_file_path"].s
        job_description_path == state["job_description_path"].s
    IN  (IF cv_file_path # "" THEN <<cv_file_path>> ELSE <<>>)
          \o (IF job_description_path # "" THEN <<job_description_path>> ELSE <<>>)

\* What holds of load_documents whatever the references: it parses the
\* references given in the order CV, job description and stops at the first
\* that fails; when it fails it returns no update and cv_text and job_text stay
\* unset
LoadInOrderAndNothingOnFailure ==
    /\ pc["load_documents"] \notin {"done", "failed"} => parsed = <<>>
    /\ pc["load_documents"] = "done" =>
          /\ parsed = GivenReferences
          /\ \A i \in DOMAIN parsed : parse_document(parsed[i]).ok
    /\ pc["load_documents"] = "failed" =>
          /\ parsed # <<>>
          /\ parsed = SubSeq(GivenReferences, 1, Len(parsed))
          /\ \A i \in DOMAIN parsed : parse_document(parsed[i]).ok <=> i < Len(parsed)
          /\ err["load_documents"] = parse_document(parsed[Len(parsed)]).error
          /\ writes["load_documents"] = {}
          /\ ~Populated("cv_text") /\ ~Populated("job_text")

\* C25 as stated: load_documents publishes cv_text and job_text together or not
\* at all, loads the CV before the job description, writes nothing when the job
\* description fails after the CV loaded, and never loads the job description
\* when the CV fails.
C25_TextsTogetherOrNotAtAll ==
    /\ LoadInOrderAndNothingOnFailure
    /\ Populated("cv_text") <=> Populated("job_text")

\* C25, amended: load_documents loads the CV before the job description; if
\* either load fails it writes nothing (both cv_text and job_text stay unset,
\* also when the CV had loaded), and the job description is never loaded when
\* the CV load fails. When both references are non-empty the two texts are
\* published together or not at all; an empty reference is skipped, and then
\* the text of the other document is published alone.
C25_LoadPublishesAllItLoaded ==
    /\ LoadInOrderAndNothingOnFailure
    /\ pc["load_documents"] \in {"done", "failed"} =>
          /\ Len(GivenReferences) = 2 => (Populated("cv_text") <=> Populated("job_text"))
          /\ state["cv_file_path"].s = "" => ~Populated("cv_text")
          /\ state["job_description_path"].s = "" => ~Populated("job_text")
          /\ (pc["load_documents"] = "done" /\ "load_documents" \notin tasks) =>
                /\ Populated("cv_text") <=> state["cv_file_path"].s # ""
                /\ Populated("job_text") <=> state["job_description_path"].s # ""

\* The job description failed to load after the CV had loaded: nothing is
\* written
C25_Witness ==
    /\ runpc = "returned"
    /\ parsed = <<"cv.txt", "bad.pdf">>
    /\ pc["load_documents"] = "failed"
    /\ err["load_documents"] = "PdfReadError"
    /\ ~Populated("cv_text")

\* load_documents has returned and its update is applied
LoadApplied == pc["load_documents"] = "done" /\ "load_documents" \notin tasks

\* The reference in slot ref yields no text: it is empty, or the content of
\* the file it names is empty once stripped
NoTextFor(ref) ==
    \/ state[ref].s = ""
    \/ Strip(Files[state[ref].s].content) = <<>>

-----------------------------------------------------------------------------
(* Termination *)

\* Every submitted stage is scheduled and every document load and agent call
\* ends; the engine and run take their steps. Nothing obliges a caller to call
\* run, nor the engine to cancel a task.
Fairness ==
    /\ WF_vars(load_documents)
    /\ \A n \in AgentNodes : WF_vars(Handler(n))
    /\ WF_vars(NextStep)
    /\ WF_vars(RunReturn)
    /\ WF_vars(RunExcept)

\* The references of the runs followed to their end: a file with text, a file
\* of whitespace, a file its reader rejects, and no reference
LivePaths == {"cv.txt", "blank.txt", "bad.pdf", ""}

run_live ==
    /\ \E cv_file_path \in LivePaths, job_description_path \in LivePaths :
          run_on(cv_file_path, job_description_path)
    /\ UNCHANGED <<parsed, outer>>

LiveNext ==
    \/ run_live
    \/ load_documents
    \/ parse_cv
    \/ analyze_job
    \/ match_skills
    \/ evaluate_experience
    \/ assess_culture_fit
    \/ create_final_assessment
    \/ Cancel
    \/ NextStep
    \/ RunReturn
    \/ RunExcept

SpecLive == Init /\ [][LiveNext]_vars /\ Fairness

\* run has returned the report of a run in which every node ran exactly once
ReportAfterEveryNodeOnce ==
    /\ runpc = "returned"
    /\ outcome.tag = "returned"
    /\ outcome.value # None
    /\ \A n \in Nodes : executed[n] = 1 /\ pc[n] = "done"

\* C27: under fair scheduling, with every load and agent call ending, a run
\* that has started eventually returns, a report or None; if none of its
\* stages fails it eventually returns the report with each of the seven nodes
\* executed exactly once; and whenever a report is returned every node has been
\* executed exactly once.
C27_RunTerminates ==
    /\ (runpc = "invoke") ~> (runpc = "returned" /\ outcome.tag = "returned")
    /\ (runpc = "invoke") ~> (Failed \/ ReportAfterEveryNodeOnce)
    /\ []((runpc = "returned" /\ outcome.value # None) => ReportAfterEveryNodeOnce)

\* A run in which every stage succeeded has returned its report, nothing logged
C27_Witness ==
    /\ ReportAfterEveryNodeOnce
    /\ ~Failed
    /\ log = <<>>
    /\ \A n \in Nodes : dispatched[n] = 1 /\ agentCalls[n] = (IF n \in AgentNodes THEN 1 ELSE 0)

\* C28: run starts every output slot at None; an output slot that holds
\* anything else holds the value the stage that owns it returned; and a stage
\* entered on a required input that is unset or empty raises ValueError without
\* calling its agent and returns nothing, so an agent is only ever called on
\* inputs that are all present.
C28_NoFallbackValues ==
    /\ (runpc = "invoke" /\ pc["load_documents"] = "pending") =>
          \A s \in OutputSlots : state[s] = None
    /\ \A s \in OutputSlots :
          Populated(s) =>
              \E n \in Nodes : /\ s \in Outputs(n)
                               /\ pc[n] = "done"
                               /\ <<s, state[s]>> \in writes[n]
    /\ \A n \in AgentNodes :
          /\ agentCalls[n] > 0 => GuardOk(n, state)
          /\ (executed[n] > 0 /\ ~GuardOk(n, state)) =>
                /\ pc[n] = "failed"
                /\ err[n] = "ValueError"
                /\ agentCalls[n] = 0
                /\ writes[n] = {}

\* No job description reference was given: job_text is left at None, not
\* replaced by anything, analyze_job raised on it, and cv_text holds what
\* load_documents returned
C28_Witness ==
    /\ runpc = "returned"
    /\ state["job_description_path"] = Str("")
    /\ state["job_text"] = None
    /\ pc["analyze_job"] = "failed"
    /\ err["analyze_job"] = "ValueError"
    /\ <<"cv_text", state["cv_text"]>> \in writes["load_documents"]

-----------------------------------------------------------------------------
(* utils/llm_factory.py create_llm, and the construction of the workflow *)

\* A str argument or environment variable that is set and not empty
NonEmpty(v) == v # None /\ v # Str("")

\* float(temp_str) and int(timeout_str) on the strings of the model; the
\* temperature is in hundredths
float(s) == CASE s = "0.0" -> Ok(0)
              [] s = "0.9" -> Ok(90)
              [] OTHER     -> Raise("ValueError")
int(s) == CASE s = "30" -> Ok(30)
            [] OTHER    -> Raise("ValueError")

\* The arguments a caller may pass and the environment it may run in
ProviderArgs == { None, Str(""), Str("openai"), Str("azure") }
ProviderEnvs == { None, Str("gemini"), Str("azure") }
ModelArgs == { None, Str("gpt-4o") }
ModelEnvs == { None, Str("env-model") }
TemperatureArgs == { None, [tag |-> "float", x |-> 0], [tag |-> "float", x |-> 70] }
TemperatureEnvs == { None, Str(""), Str("0.9"), Str("abc") }
TimeoutEnvs == { None, Str("30"), Str("soon") }

Environments ==
    [ DEFAULT_LLM_PROVIDER : ProviderEnvs, DEFAULT_MODEL : ModelEnvs,
      TEMPERATURE : TemperatureEnvs, TIMEOUT_SECONDS : TimeoutEnvs ]

create_llmFalsyTemperature(provider, model, temperature, env) ==
    LET p == IF NonEmpty(provider) THEN provider.s
             ELSE IF NonEmpty(env.DEFAULT_LLM_PROVIDER) THEN env.DEFAULT_LLM_PROVIDER.s
             ELSE "anthropic"
        m == IF NonEmpty(model) THEN model.s
             ELSE IF NonEmpty(env.DEFAULT_MODEL) THEN env.DEFAULT_MODEL.s
             ELSE "claude-3-5-sonnet-latest"
        t == IF temperature # None /\ temperature.x # 0 THEN Ok(temperature.x)
             ELSE IF NonEmpty(env.TEMPERATURE) THEN float(env.TEMPERATURE.s)
             ELSE Ok(40)
        timeout_seconds == IF NonEmpty(env.TIMEOUT_SECONDS) THEN int(env.TIMEOUT_SECONDS.s)
                           ELSE Ok(60)
    IN  IF ~t.ok THEN Raise(t.error)
        ELSE IF ~timeout_seconds.ok THEN Raise(timeout_seconds.error)
        ELSE IF p \in {"openai", "anthropic", "gemini"}
        THEN Ok([tag |-> "llm", provider |-> p, model |-> m, temperature |-> t.value])
        ELSE Raise("ValueError")
\* create_llm: "provider or os.getenv(...) or default" for provider and model,
\* "if temperature is None" for the temperature, then the branch on provider
create_llm(provider, model, temperature, env) ==
    LET p == IF NonEmpty(provider) THEN provider.s
             ELSE IF NonEmpty(env.DEFAULT_LLM_PROVIDER) THEN env.DEFAULT_LLM_PROVIDER.s
             ELSE "anthropic"
        m == IF NonEmpty(model) THEN model.s
             ELSE IF NonEmpty(env.DEFAULT_MODEL) THEN env.DEFAULT_MODEL.s
             ELSE "claude-3-5-sonnet-latest"
        t == IF temperature # None THEN Ok(temperature.x)
             ELSE IF NonEmpty(env.TEMPERATURE) THEN float(env.TEMPERATURE.s)
             ELSE Ok(40)
        timeout_seconds == IF NonEmpty(env.TIMEOUT_SECONDS) THEN int(env.TIMEOUT_SECONDS.s)
                           ELSE Ok(60)
    IN  IF ~t.ok THEN Raise(t.error)
        ELSE IF ~timeout_seconds.ok THEN Raise(timeout_seconds.error)
        ELSE IF p \in {"openai", "anthropic", "gemini"}
        THEN Ok([tag |-> "llm", provider |-> p, model |-> m, temperature |-> t.value])
        ELSE Raise("ValueError")

\* No workflow object yet; other holds the keyword arguments the caller will
\* construct it with (llm: whether a ready LLM is passed) and the environment
LlmInit ==
    /\ \E provider \in ProviderArgs, model \in ModelArgs, temperature \in TemperatureArgs,
          llm \in BOOLEAN, env \in Environments :
          other = [tag |-> "kwargs", provider |-> provider, model |-> model,
                   temperature |-> temperature, llm |-> llm, env |-> env]
    /\ runpc = "none"
    /\ outcome = [tag |-> "pending"]
    /\ state = [s \in Slots |-> None]
    /\ tasks = {}
    /\ pc = [n \in Nodes |-> "idle"]
    /\ writes = [n \in Nodes |-> {}]
    /\ err = [n \in Nodes |-> NoError]
    /\ log = <<>>
    /\ dispatched = [n \in Nodes |-> 0]
    /\ executed = [n \in Nodes |-> 0]
    /\ agentCalls = [n \in Nodes |-> 0]
    /\ writeCount = [s \in Slots |-> 0]
    /\ failOrder = <<>>
    /\ trace = <<>>
    /\ parsed = <<>>
    /\ cli = [pc |-> "idle"]
    /\ exitStatus = -1
    /\ reportFile = None
    /\ printed = <<>>
    /\ active = 1

\* CVAssessmentWorkflow(**llm_kwargs): each of the six agents does
\* "self.llm = llm or create_llm(**llm_kwargs)"; the first that raises ends the
\* construction
CVAssessmentWorkflow_init ==
    /\ runpc = "none"
    /\ outcome.tag = "pending"
    /\ LET r == create_llm(other.provider, other.model, other.temperature, other.env) IN
       IF other.llm
       THEN /\ runpc' = "start"
            /\ outcome' = [tag |-> "constructed", llm |-> [tag |-> "given"]]
       ELSE IF r.ok
       THEN /\ runpc' = "start"
            /\ outcome' = [tag |-> "constructed", llm |-> r.value]
       ELSE /\ runpc' = "none"
            /\ outcome' = [tag |-> "raised", error |-> r.error]
    /\ UNCHANGED <<state, tasks, pc, writes, err, log, dispatched, executed,
                   agentCalls, writeCount, failOrder, trace, parsed, outer>>

\* run called on the constructed workflow
constructed_run ==
    /\ outcome.tag = "constructed"
    /\ run_on("cv.txt", "job.md")
    /\ UNCHANGED <<parsed, outer>>

LlmNext ==
    \/ CVAssessmentWorkflow_init
    \/ constructed_run

SpecLlm == LlmInit /\ [][LlmNext]_vars

\* The first of the argument, the environment variable and the default that
\* is given
FirstGiven(arg, envvar, default) ==
    IF NonEmpty(arg) THEN arg.s ELSE IF NonEmpty(envvar) THEN envvar.s ELSE default

\* C29: when create_llm returns, provider and model are the explicit argument
\* if given, else the environment variable if set, else anthropic and
\* claude-3-5-sonnet-latest; the temperature is the explicit argument whenever
\* one is passed, 0.0 included, else the environment variable, else 0.4. When
\* the provider so resolved is not openai, anthropic or gemini create_llm
\* raises ValueError; and when create_llm raises, the construction of the
\* workflow raises and no run ever starts on it.
C29_CreateLlmPrecedence ==
    LET env == other.env
        r == create_llm(other.provider, other.model, other.temperature, env)
        provider == FirstGiven(other.provider, env.DEFAULT_LLM_PROVIDER, "anthropic")
    IN  /\ r.ok =>
              /\ r.value.provider = provider
              /\ r.value.model =
                    FirstGiven(other.model, env.DEFAULT_MODEL, "claude-3-5-sonnet-latest")
              /\ other.temperature # None => r.value.temperature = other.temperature.x
              /\ (other.temperature = None /\ NonEmpty(env.TEMPERATURE)) =>
                    Ok(r.value.temperature) = float(env.TEMPERATURE.s)
              /\ (other.temperature = None /\ ~NonEmpty(env.TEMPERATURE)) =>
                    r.value.temperature = 40
        /\ provider \notin {"openai", "anthropic", "gemini"} => r = Raise("ValueError")
        /\ (~r.ok /\ ~other.llm) =>
              /\ runpc = "none"
              /\ outcome.tag \in {"pending", "raised"}
              /\ \A n \in Nodes : dispatched[n] = 0
        /\ (~r.ok /\ ~other.llm /\ outcome.tag # "pending") =>
              outcome = [tag |-> "raised", error |-> "ValueError"]
        /\ outcome.tag = "constructed" =>
              outcome.llm = IF other.llm THEN [tag |-> "given"] ELSE r.value

\* A workflow constructed with an explicit temperature of 0.0, kept although
\* TEMPERATURE is set, its provider taken from the environment, and a run
\* started on it
C29_Witness ==
    /\ runpc = "invoke"
    /\ outcome.tag = "constructed"
    /\ other.temperature = [tag |-> "float", x |-> 0]
    /\ other.env.TEMPERATURE = Str("0.9")
    /\ other.provider = Str("")
    /\ outcome.llm = [tag |-> "llm", provider |-> "gemini", model |-> "env-model",
                      temperature |-> 0]

=============================================================================
